---------------------------- MODULE Spec2Model ----------------------------
(***************************************************************************)
(* A model of the rug-chart editor (src/App.tsx, src/components/           *)
(* GridCanvas.tsx): the grid of knots, its configuration, the asynchronous *)
(* image decodes that resample it, the palette, the saved project and the  *)
(* paint tools.                                                            *)
(*                                                                         *)
(* A hex string is a sequence of one-character strings, "#" included.      *)
(* A colour channel is an integer in 0..255, or NaN.                       *)
(* Opacity is kept in percent (the slider's unit); contrast in tenths.     *)
(***************************************************************************)
EXTENDS Integers, Sequences, FiniteSets, TLC

(***************************************************************************)
(* Values of the language                                                  *)
(***************************************************************************)

\* JavaScript's NaN (0/0 in the quantizer's base case); no channel is negative.
NaN == -1

\* JavaScript's null, as hexToRgb returns it and as imageSrc starts.
null == [null |-> TRUE]

Min(a, b) == IF a < b THEN a ELSE b
Max(a, b) == IF a > b THEN a ELSE b

\* Math.round of the non-negative quotient num/den: the nearest integer, halves up.
MathRound(num, den) == (2 * num + den) \div (2 * den)

\* Array.prototype.slice(from, to) with 0-based from (inclusive) and to (exclusive).
Slice(s, from, to) == SubSeq(s, from + 1, to)

(***************************************************************************)
(* Colour math                                                             *)
(***************************************************************************)

LowerDigits == <<"0","1","2","3","4","5","6","7","8","9","a","b","c","d","e","f">>
UpperDigits == <<"0","1","2","3","4","5","6","7","8","9","A","B","C","D","E","F">>

\* The value of one hex digit in either case, as parseInt(.., 16) reads it.
DigitVal(c) == CHOOSE v \in 0..15 : LowerDigits[v + 1] = c \/ UpperDigits[v + 1] = c

\* [a-f\d] under the i flag.
IsHexDigit(c) == \E v \in 0..15 : LowerDigits[v + 1] = c \/ UpperDigits[v + 1] = c

\* hexToRgb: an optional "#", then exactly six hex digits; null otherwise.
hexToRgb(hex) ==
    LET s == IF Len(hex) > 0 /\ hex[1] = "#" THEN Tail(hex) ELSE hex
    IN  IF Len(s) = 6 /\ \A i \in 1..6 : IsHexDigit(s[i])
        THEN [r |-> 16 * DigitVal(s[1]) + DigitVal(s[2]),
              g |-> 16 * DigitVal(s[3]) + DigitVal(s[4]),
              b |-> 16 * DigitVal(s[5]) + DigitVal(s[6])]
        ELSE null

\* Number.prototype.toString(16) of a non-negative integer.
RECURSIVE ToString16(_)
ToString16(n) ==
    IF n < 16 THEN <<LowerDigits[n + 1]>>
    ELSE Append(ToString16(n \div 16), LowerDigits[(n % 16) + 1])

\* rgbToHex: "#" + ((1 << 24) + (r << 16) + (g << 8) + b).toString(16).slice(1).
\* A shift turns NaN into 0; b is added unshifted, so NaN in b makes the sum NaN,
\* whose string is "NaN".
rgbToHex(r, g, b) ==
    LET ToInt32(v) == IF v = NaN THEN 0 ELSE v
        str == IF b = NaN THEN <<"N", "a", "N">>
               ELSE ToString16(16777216 + ToInt32(r) * 65536 + ToInt32(g) * 256 + b)
    IN  <<"#">> \o Tail(str)

\* A distance whose red weight is taken from the first colour alone.
DistanceFromFirstRed(c1, c2) ==
    LET rsum == 2 * c1.r
        r == c1.r - c2.r
        g == c1.g - c2.g
        b == c1.b - c2.b
    IN  ((((1024 + rsum) * r * r) \div 2) \div 256)
        + 4 * g * g
        + ((((1534 - rsum) * b * b) \div 2) \div 256)

\* getColorDistance without its final Math.sqrt: the radicand, an integer. The square
\* root is strictly increasing, so comparisons of distances are comparisons of these.
\* rmean = (c1.r + c2.r) / 2 may end in .5; >> 8 truncates to an integer first.
getColorDistance(c1, c2) ==
    LET rsum == c1.r + c2.r
        r == c1.r - c2.r
        g == c1.g - c2.g
        b == c1.b - c2.b
    IN  ((((1024 + rsum) * r * r) \div 2) \div 256)
        + 4 * g * g
        + ((((1534 - rsum) * b * b) \div 2) \div 256)

\* Math.round of the double for num / 100 in blendColors. alpha = pct / 100 and
\* 1 - alpha are doubles, exact for pct = 50 only; where num / 100 is x.5 for
\* another pct the rounded products sum to one side or the other of x.5.
RoundOutcomes(num, pct) ==
    IF num % 100 = 50 /\ pct # 50
    THEN {num \div 100, num \div 100 + 1}
    ELSE {MathRound(num, 100)}

\* A blend that adds the paint, weighted, to the background.
AddOutcomes(bg, fg, pct) ==
    {[r |-> r, g |-> g, b |-> b] :
        r \in RoundOutcomes(bg.r * 100 + fg.r * pct, pct),
        g \in RoundOutcomes(bg.g * 100 + fg.g * pct, pct),
        b \in RoundOutcomes(bg.b * 100 + fg.b * pct, pct)}

\* The values blendColors can return for an opacity of pct percent.
BlendOutcomes(bg, fg, pct) ==
    IF pct >= 100 THEN {[r |-> fg.r, g |-> fg.g, b |-> fg.b]}
    ELSE {[r |-> r, g |-> g, b |-> b] :
             r \in RoundOutcomes(bg.r * (100 - pct) + fg.r * pct, pct),
             g \in RoundOutcomes(bg.g * (100 - pct) + fg.g * pct, pct),
             b \in RoundOutcomes(bg.b * (100 - pct) + fg.b * pct, pct)}

\* blendColors with alpha = pct / 100 (brushOpacity / 100 at the call site), at
\* the opacities 50 and 100, where the doubles are exact.
blendColors(bg, fg, pct) ==
    IF pct >= 100 THEN [r |-> fg.r, g |-> fg.g, b |-> fg.b]
    ELSE [r |-> MathRound(bg.r * (100 - pct) + fg.r * pct, 100),
          g |-> MathRound(bg.g * (100 - pct) + fg.g * pct, 100),
          b |-> MathRound(bg.b * (100 - pct) + fg.b * pct, 100)]

(***************************************************************************)
(* Median-cut quantization                                                 *)
(***************************************************************************)

RECURSIVE SeqMin(_, _, _)
SeqMin(pixels, ch, acc) ==
    IF pixels = <<>> THEN acc
    ELSE SeqMin(Tail(pixels), ch, Min(acc, Head(pixels)[ch]))

RECURSIVE SeqMax(_, _, _)
SeqMax(pixels, ch, acc) ==
    IF pixels = <<>> THEN acc
    ELSE SeqMax(Tail(pixels), ch, Max(acc, Head(pixels)[ch]))

findBiggestRange(pixels) ==
    LET rRange == SeqMax(pixels, "r", 0) - SeqMin(pixels, "r", 255)
        gRange == SeqMax(pixels, "g", 0) - SeqMin(pixels, "g", 255)
        bRange == SeqMax(pixels, "b", 0) - SeqMin(pixels, "b", 255)
    IN  IF rRange >= gRange /\ rRange >= bRange THEN "r"
        ELSE IF gRange >= rRange /\ gRange >= bRange THEN "g"
        ELSE "b"

\* Array.prototype.sort with (a,b) => a[ch] - b[ch]: a stable sort, here by insertion.
RECURSIVE SortBy(_, _)
SortBy(pixels, ch) ==
    IF pixels = <<>> THEN <<>>
    ELSE LET rest == SortBy(Slice(pixels, 0, Len(pixels) - 1), ch)
             p == pixels[Len(pixels)]
             k == Cardinality({i \in 1..Len(rest) : rest[i][ch] <= p[ch]})
         IN  Slice(rest, 0, k) \o <<p>> \o Slice(rest, k, Len(rest))

RECURSIVE SumOf(_, _)
SumOf(pixels, ch) ==
    IF pixels = <<>> THEN 0 ELSE Head(pixels)[ch] + SumOf(Tail(pixels), ch)

\* Math.round(sum / length); 0 / 0 is NaN and Math.round(NaN) is NaN.
MeanOf(pixels, ch) ==
    IF Len(pixels) = 0 THEN NaN ELSE MathRound(SumOf(pixels, ch), Len(pixels))

RECURSIVE medianCutQuantization(_, _)
\* A quantizer that never splits: the mean of the whole sample.
QuantizeToMean(pixels, depth) ==
    <<[r |-> MeanOf(pixels, "r"), g |-> MeanOf(pixels, "g"), b |-> MeanOf(pixels, "b")]>>

medianCutQuantization(pixels, depth) ==
    IF depth = 0 \/ Len(pixels) = 0
    THEN <<[r |-> MeanOf(pixels, "r"), g |-> MeanOf(pixels, "g"), b |-> MeanOf(pixels, "b")]>>
    ELSE LET sorted == SortBy(pixels, findBiggestRange(pixels))
             mid == Len(sorted) \div 2
         IN  medianCutQuantization(Slice(sorted, 0, mid), depth - 1)
             \o medianCutQuantization(Slice(sorted, mid, Len(sorted)), depth - 1)

\* The distinct elements, each at the place of its last occurrence.
RECURSIVE UniqueLast(_)
UniqueLast(xs) ==
    IF xs = <<>> THEN <<>>
    ELSE LET rest == UniqueLast(Tail(xs))
         IN  IF \E i \in 1..Len(rest) : rest[i] = Head(xs) THEN rest
             ELSE <<Head(xs)>> \o rest

\* [...new Set(xs)]: the distinct elements in order of first occurrence.
RECURSIVE Unique(_)
Unique(xs) ==
    IF xs = <<>> THEN <<>>
    ELSE LET init == Unique(Slice(xs, 0, Len(xs) - 1))
             x == xs[Len(xs)]
         IN  IF \E i \in 1..Len(init) : init[i] = x THEN init ELSE Append(init, x)

(***************************************************************************)
(* Source images and the canvas                                            *)
(***************************************************************************)

Rgb(r, g, b) == [r |-> r, g |-> g, b |-> b]
Black == Rgb(0, 0, 0)
White == Rgb(255, 255, 255)
Red   == Rgb(255, 0, 0)
Grey  == Rgb(100, 100, 100)

\* A source is a data URL; the decoded image behind each one used here.
Src(name) == [url |-> name]

Decoded(src) ==
    CASE src.url = "bw"    -> [width |-> 2, height |-> 1, px |-> <<<<Black, White>>>>]
      [] src.url = "duo"   -> [width |-> 2, height |-> 1, px |-> <<<<Grey, White>>>>]
      [] src.url = "banner" -> [width |-> 300, height |-> 1,
                                px |-> [y \in 1..1 |-> [x \in 1..300 |-> Grey]]]
      [] src.url = "red4"  -> [width |-> 4, height |-> 4,
                               px |-> [y \in 1..4 |-> [x \in 1..4 |-> Red]]]
      [] src.url = "tile3" -> [width |-> 3, height |-> 3,
                               px |-> [y \in 1..3 |-> [x \in 1..3 |->
                                         IF (x + y) % 2 = 0 THEN Black ELSE Grey]]]

\* The canvas filter contrast(c) on one channel, c in tenths:
\* clamp(round((v - 127.5) * c + 127.5), 0, 255).
ContrastChannel(v, contrast) ==
    LET num == 2 * contrast * v + 255 * (10 - contrast)
    IN  IF num <= 0 THEN 0 ELSE Min(255, MathRound(num, 20))

\* ctx.filter = contrast(..); ctx.drawImage(img, 0, 0, cols, rows); getImageData:
\* rows x cols samples, each the filtered source pixel under the sample's centre.
DrawImage(img, cols, rows, contrast) ==
    [y \in 1..rows |-> [x \in 1..cols |->
        LET p == img.px[((2 * y - 1) * img.height) \div (2 * rows) + 1]
                       [((2 * x - 1) * img.width) \div (2 * cols) + 1]
        IN  Rgb(ContrastChannel(p.r, contrast),
                ContrastChannel(p.g, contrast),
                ContrastChannel(p.b, contrast))]]

(***************************************************************************)
(* The resample: img.onload of the processImage effect                     *)
(***************************************************************************)

\* A parse that keeps the entries hexToRgb rejects, their channels undefined.
KeepUnparsed(palette) ==
    [i \in 1..Len(palette) |->
        LET rgb == hexToRgb(palette[i])
        IN  IF rgb = null THEN [r |-> NaN, g |-> NaN, b |-> NaN, hex |-> palette[i]]
            ELSE [r |-> rgb.r, g |-> rgb.g, b |-> rgb.b, hex |-> palette[i]]]

\* palette.map(hex => ({hex, ...hexToRgb(hex)})).filter(c => c.r !== undefined)
RECURSIVE ParsePalette(_)
ParsePalette(palette) ==
    IF palette = <<>> THEN <<>>
    ELSE LET rgb == hexToRgb(Head(palette))
         IN  IF rgb = null THEN ParsePalette(Tail(palette))
             ELSE <<[r |-> rgb.r, g |-> rgb.g, b |-> rgb.b, hex |-> Head(palette)]>>
                  \o ParsePalette(Tail(palette))

\* A scan in which a later entry at the same distance replaces the earlier one.
RECURSIVE ClosestLast(_, _, _, _)
ClosestLast(c, paletteRgb, i, best) ==
    IF i > Len(paletteRgb) THEN paletteRgb[best]
    ELSE IF i = 1 \/ getColorDistance(c, paletteRgb[i]) <= getColorDistance(c, paletteRgb[best])
         THEN ClosestLast(c, paletteRgb, i + 1, i)
         ELSE ClosestLast(c, paletteRgb, i + 1, best)

\* The scan for the closest entry: dist < minDist, minDist starting at Infinity.
RECURSIVE ClosestFrom(_, _, _, _)
ClosestFrom(c, paletteRgb, i, best) ==
    IF i > Len(paletteRgb) THEN paletteRgb[best]
    ELSE IF i = 1 \/ getColorDistance(c, paletteRgb[i]) < getColorDistance(c, paletteRgb[best])
         THEN ClosestFrom(c, paletteRgb, i + 1, i)
         ELSE ClosestFrom(c, paletteRgb, i + 1, best)

\* One cell of newPixels from its sample (r, g, b).
MapPixel(c, usePalette, paletteRgb) ==
    IF usePalette /\ Len(paletteRgb) > 0
    THEN ClosestFrom(c, paletteRgb, 1, 1)
    ELSE [r |-> c.r, g |-> c.g, b |-> c.b, hex |-> rgbToHex(c.r, c.g, c.b)]

\* newPixels as img.onload builds it from the configuration its closure captured.
processImage(d) ==
    LET data == DrawImage(Decoded(d.src), d.cols, d.rows, d.contrast)
        paletteRgb == IF d.usePalette THEN ParsePalette(d.palette) ELSE <<>>
    IN  [y \in 1..d.rows |-> [x \in 1..d.cols |->
            MapPixel(data[y][x], d.usePalette, paletteRgb)]]

(***************************************************************************)
(* The state of the application                                            *)
(***************************************************************************)

PRESET_PALETTES ==
    [
      traditional |-> <<<<"#","8","B","0","0","0","0">>,
                      <<"#","F","5","F","5","D","C">>,
                      <<"#","0","0","0","0","8","0">>,
                      <<"#","D","4","A","F","3","7">>,
                      <<"#","0","0","0","0","0","0">>,
                      <<"#","0","0","6","4","0","0">>>>,
      earthy |-> <<<<"#","8","B","4","5","1","3">>,
                 <<"#","D","2","6","9","1","E">>,
                 <<"#","F","4","A","4","6","0">>,
                 <<"#","5","5","6","B","2","F">>,
                 <<"#","F","A","E","B","D","7">>,
                 <<"#","2","F","4","F","4","F">>>>,
      modern |-> <<<<"#","2","C","3","E","5","0">>,
                 <<"#","9","5","A","5","A","6">>,
                 <<"#","E","C","F","0","F","1">>,
                 <<"#","E","7","4","C","3","C">>,
                 <<"#","3","4","4","9","5","E">>>>,
      blue |-> <<<<"#","0","0","0","0","8","0">>,
               <<"#","4","1","6","9","E","1">>,
               <<"#","8","7","C","E","E","B">>,
               <<"#","E","0","F","F","F","F">>,
               <<"#","F","F","F","F","F","F">>,
               <<"#","1","9","1","9","7","0">>>>
    ]

VARIABLES
    imageSrc,             \* App: the source image's data URL, or null
    pixels,               \* App: the grid, rows of cells [r, g, b, hex]
    gridConfig,           \* App: rows, cols, showGrid, showNumbers, contrast, usePalette, palette
    isProcessingBlocked,  \* App: isProcessingBlockedRef.current
    activeTool,           \* App: "none", "brush", "eraser" or "dropper"
    brushColor,           \* App: a hex string
    brushSize,            \* App: 1..10
    brushOpacity,         \* App: percent, 10..100
    isDrawing,            \* GridCanvas: isDrawing.current
    decodes,              \* the processImage effect's images still decoding, oldest first
    loads,                \* loadImageAndConfig's images still decoding
    extracts,             \* extractPaletteFromImage's images still decoding
    storage,              \* localStorage's rugProject: null or the saved project
    crashed,              \* an error was thrown while rendering: the application is gone
    buttonHeld,           \* the user's mouse button, as the user holds it
    paints,               \* paint applications that returned a new grid since it was last replaced
    last,                 \* the operation that led to this state
    call                  \* a helper called on its own: its name, arguments and result

vars == <<imageSrc, pixels, gridConfig, isProcessingBlocked, activeTool, brushColor,
          brushSize, brushOpacity, isDrawing, decodes, loads, extracts, storage,
          crashed, buttonHeld, paints, last, call>>

appVars    == <<imageSrc, gridConfig, isProcessingBlocked, decodes>>
toolVars   == <<activeTool, brushColor, brushSize, brushOpacity>>
mouseVars  == <<isDrawing, buttonHeld>>

\* last: the operation, the tool that was active when it began, and its input.
Op(name) == [op |-> name, tool |-> activeTool, x |-> 0, y |-> 0, arg |-> ""]
OpAt(name, x, y) == [op |-> name, tool |-> activeTool, x |-> x, y |-> y, arg |-> ""]
OpOn(name, arg) == [op |-> name, tool |-> activeTool, x |-> 0, y |-> 0, arg |-> arg]

\* Bounds of the model.
MaxPending == 1      \* images decoding at once for the processImage effect
MaxRacing  == 2      \* the same where resamples race each other (SpecOrder)
MaxPaints  == 1      \* paint applications explored on one grid before it is replaced
MaxPalette == 4      \* palette entries addColorToPalette may reach

(***************************************************************************)
(* The processImage effect                                                 *)
(***************************************************************************)

\* What img.onload will read from the gridConfig its closure captured.
Capture(src, cfg) ==
    [src |-> src, cols |-> cfg.cols, rows |-> cfg.rows, contrast |-> cfg.contrast,
     usePalette |-> cfg.usePalette, palette |-> cfg.palette]

\* The effect after a render that committed src and cfg. newPalette: the palette is
\* another array than before (the dependency list compares arrays by identity).
\* The result is the ref's value and the images decoding after the effect.
Effect(src, cfg, newPalette, blocked) ==
    LET changed == \/ src # imageSrc
                   \/ cfg.cols # gridConfig.cols
                   \/ cfg.rows # gridConfig.rows
                   \/ cfg.contrast # gridConfig.contrast
                   \/ cfg.usePalette # gridConfig.usePalette
                   \/ newPalette
    IN  IF ~changed THEN [blocked |-> blocked, decodes |-> decodes]
        ELSE IF blocked THEN [blocked |-> FALSE, decodes |-> decodes]
        ELSE IF src = null THEN [blocked |-> blocked, decodes |-> decodes]
        ELSE [blocked |-> blocked, decodes |-> Append(decodes, Capture(src, cfg))]

\* A render that commits src and cfg, followed by the effect.
Commit(src, cfg, newPalette, blocked) ==
    LET e == Effect(src, cfg, newPalette, blocked)
    IN  /\ imageSrc' = src
        /\ gridConfig' = cfg
        /\ isProcessingBlocked' = e.blocked
        /\ decodes' = e.decodes

RemoveAt(s, i) == SubSeq(s, 1, i - 1) \o SubSeq(s, i + 1, Len(s))

\* img.onload of the effect: the i-th image still decoding is ready. A canvas of
\* width or height 0 makes getImageData throw, and the handler ends there.
processImageOnload(i) ==
    /\ i \in 1..Len(decodes)
    /\ pixels' = IF decodes[i].cols < 1 \/ decodes[i].rows < 1 THEN pixels
                 ELSE processImage(decodes[i])
    /\ paints' = IF decodes[i].cols < 1 \/ decodes[i].rows < 1 THEN paints ELSE 0
    /\ decodes' = RemoveAt(decodes, i)
    /\ last' = OpAt("processImage.onload", i, 0)
    /\ UNCHANGED <<imageSrc, gridConfig, isProcessingBlocked, toolVars, mouseVars,
                   loads, extracts, storage, crashed>>

\* A failure handler that empties the grid.
ErrorClearsGrid(i) ==
    /\ i \in 1..Len(decodes)
    /\ pixels' = <<>>
    /\ decodes' = RemoveAt(decodes, i)
    /\ last' = OpAt("processImage.onerror", i, 0)
    /\ UNCHANGED <<imageSrc, gridConfig, isProcessingBlocked, toolVars, mouseVars,
                   loads, extracts, storage, crashed, paints>>

\* The image of the effect fails to decode: onload never fires.
processImageError(i) ==
    /\ i \in 1..Len(decodes)
    /\ decodes' = RemoveAt(decodes, i)
    /\ last' = OpAt("processImage.onerror", i, 0)
    /\ UNCHANGED <<imageSrc, pixels, gridConfig, isProcessingBlocked, toolVars, mouseVars,
                   loads, extracts, storage, crashed, paints>>

(***************************************************************************)
(* Loading an image                                                        *)
(***************************************************************************)

\* loadImageAndConfig(src), as handleImageUpload's reader and handleGenerateDesign
\* call it: the ref is cleared and an image starts decoding.
loadImageAndConfig(src) ==
    /\ src \notin loads
    /\ isProcessingBlocked' = FALSE
    /\ loads' = loads \cup {src}
    /\ last' = Op("loadImageAndConfig")
    /\ UNCHANGED <<imageSrc, pixels, gridConfig, decodes, toolVars, mouseVars,
                   extracts, storage, crashed, paints>>

\* The cols and rows loadImageAndConfig's img.onload derives from the image.
NewCols(img) == IF img.width < 150 THEN img.width ELSE 100
NewRows(img) == MathRound(NewCols(img) * img.height, img.width)

\* img.onload of loadImageAndConfig: cols and rows from the image, then imageSrc.
loadImageOnload(src) ==
    /\ src \in loads
    /\ loads' = loads \ {src}
    /\ Commit(src,
              [gridConfig EXCEPT !.cols = NewCols(Decoded(src)),
                                 !.rows = NewRows(Decoded(src))],
              FALSE, isProcessingBlocked)
    /\ last' = Op("loadImageAndConfig.onload")
    /\ UNCHANGED <<pixels, toolVars, mouseVars, extracts, storage, crashed, paints>>

\* The image of loadImageAndConfig fails to decode: onload never fires.
loadImageError(src) ==
    /\ src \in loads
    /\ loads' = loads \ {src}
    /\ last' = Op("loadImageAndConfig.onerror")
    /\ UNCHANGED <<appVars, pixels, toolVars, mouseVars, extracts, storage, crashed, paints>>

(***************************************************************************)
(* The grid configuration's inputs                                         *)
(***************************************************************************)

\* Math.max(1, parseInt(e.target.value) || 10), v being parseInt's result.
ParseDim(v) == Max(1, IF v = NaN \/ v = 0 THEN 10 ELSE v)

\* A change of one field of gridConfig that keeps the palette array.
SetConfig(cfg, name) ==
    /\ Commit(imageSrc, cfg, FALSE, isProcessingBlocked)
    /\ last' = Op(name)
    /\ UNCHANGED <<pixels, toolVars, mouseVars, loads, extracts, storage, crashed, paints>>

setCols(v) == SetConfig([gridConfig EXCEPT !.cols = ParseDim(v)], "setCols")
setRows(v) == SetConfig([gridConfig EXCEPT !.rows = ParseDim(v)], "setRows")
setContrast(v) == SetConfig([gridConfig EXCEPT !.contrast = v], "setContrast")

\* A gridlines toggle that hands the effect a palette array of its own.
ToggleShowGridNewPalette ==
    /\ Commit(imageSrc, [gridConfig EXCEPT !.showGrid = ~gridConfig.showGrid], TRUE,
              isProcessingBlocked)
    /\ last' = Op("toggleShowGrid")
    /\ UNCHANGED <<pixels, toolVars, mouseVars, loads, extracts, storage, crashed, paints>>

toggleShowGrid == SetConfig([gridConfig EXCEPT !.showGrid = ~gridConfig.showGrid], "toggleShowGrid")

toggleUsePalette ==
    SetConfig([gridConfig EXCEPT !.usePalette = ~gridConfig.usePalette], "toggleUsePalette")

(***************************************************************************)
(* The palette                                                             *)
(***************************************************************************)

\* A change of the palette: always another array.
SetPalette(palette, name) ==
    /\ Commit(imageSrc, [gridConfig EXCEPT !.palette = palette], TRUE, isProcessingBlocked)
    /\ last' = Op(name)
    /\ UNCHANGED <<pixels, toolVars, mouseVars, loads, extracts, storage, crashed, paints>>

\* index is 0-based, as in the code.
updatePaletteColor(index, newColor) ==
    /\ index \in 0..(Len(gridConfig.palette) - 1)
    /\ SetPalette([gridConfig.palette EXCEPT ![index + 1] = newColor], "updatePaletteColor")

addColorToPalette ==
    /\ Len(gridConfig.palette) < MaxPalette
    /\ SetPalette(Append(gridConfig.palette, <<"#","0","0","0","0","0","0">>),
                  "addColorToPalette")

\* The early return leaves the state as it is: no render follows.
removeColorFromPalette(index) ==
    /\ index \in 0..(Len(gridConfig.palette) - 1)
    /\ IF Len(gridConfig.palette) <= 2
       THEN /\ last' = Op("removeColorFromPalette")
            /\ UNCHANGED <<appVars, pixels, toolVars, mouseVars, loads, extracts, storage,
                           crashed, paints>>
       ELSE SetPalette(RemoveAt(gridConfig.palette, index + 1), "removeColorFromPalette")

selectPreset(key) == SetPalette(PRESET_PALETTES[key], "selectPreset")

\* extractPaletteFromImage: an image of imageSrc starts decoding.
extractPaletteFromImage ==
    /\ imageSrc # null
    /\ imageSrc \notin extracts
    /\ extracts' = extracts \cup {imageSrc}
    /\ last' = Op("extractPaletteFromImage")
    /\ UNCHANGED <<appVars, pixels, toolVars, mouseVars, loads, storage, crashed, paints>>

\* The rows of a raster one after the other, as the loop over imageData reads them.
RECURSIVE Flatten(_)
Flatten(rows) == IF rows = <<>> THEN <<>> ELSE Head(rows) \o Flatten(Tail(rows))

\* The canvas of extractPaletteFromImage: the image scaled to at most maxDim = 200
\* on its longer side (canvas.width and canvas.height truncate to integers).
SampleWidth(img)  == IF Max(img.width, img.height) <= 200 THEN img.width
                     ELSE (img.width * 200) \div Max(img.width, img.height)
SampleHeight(img) == IF Max(img.width, img.height) <= 200 THEN img.height
                     ELSE (img.height * 200) \div Max(img.width, img.height)

\* uniqueColors: medianCutQuantization(pixels, 4), as hex strings, deduplicated.
ExtractedPalette(img) ==
    LET sample == Flatten(DrawImage(img, SampleWidth(img), SampleHeight(img), 10))
        quantizedColors == medianCutQuantization(sample, 4)
    IN  Unique([i \in 1..Len(quantizedColors) |->
                  rgbToHex(quantizedColors[i].r, quantizedColors[i].g, quantizedColors[i].b)])

\* img.onload of extractPaletteFromImage. getImageData throws on an empty canvas.
extractOnload(src) ==
    /\ src \in extracts
    /\ extracts' = extracts \ {src}
    /\ IF SampleWidth(Decoded(src)) < 1 \/ SampleHeight(Decoded(src)) < 1
       THEN UNCHANGED appVars
       ELSE Commit(imageSrc,
                   [gridConfig EXCEPT !.palette = ExtractedPalette(Decoded(src)),
                                      !.usePalette = TRUE],
                   TRUE, isProcessingBlocked)
    /\ last' = Op("extractPaletteFromImage.onload")
    /\ UNCHANGED <<pixels, toolVars, mouseVars, loads, storage, crashed, paints>>

\* The image of extractPaletteFromImage fails to decode: onload never fires.
extractError(src) ==
    /\ src \in extracts
    /\ extracts' = extracts \ {src}
    /\ last' = Op("extractPaletteFromImage.onerror")
    /\ UNCHANGED <<appVars, pixels, toolVars, mouseVars, loads, storage, crashed, paints>>

(***************************************************************************)
(* The tools                                                               *)
(***************************************************************************)

SetTool(tool, color, size, opacity, op) ==
    /\ activeTool' = tool
    /\ brushColor' = color
    /\ brushSize' = size
    /\ brushOpacity' = opacity
    /\ last' = op
    /\ UNCHANGED <<appVars, pixels, mouseVars, loads, extracts, storage, crashed, paints>>

\* A selection that does not toggle.
SelectToolNoToggle(t) ==
    SetTool(t, brushColor, brushSize, brushOpacity, OpOn("selectTool", t))

\* The brush, eraser and dropper buttons.
selectTool(t) ==
    SetTool(IF activeTool = t THEN "none" ELSE t, brushColor, brushSize, brushOpacity,
            OpOn("selectTool", t))

\* The pointer button.
selectNone == SetTool("none", brushColor, brushSize, brushOpacity, Op("selectNone"))

\* A click on a swatch of the palette (index 0-based).
pickPaletteColor(index) ==
    /\ index \in 0..(Len(gridConfig.palette) - 1)
    /\ SetTool("brush", gridConfig.palette[index + 1], brushSize, brushOpacity,
               Op("pickPaletteColor"))

\* The sliders are rendered only while the brush or the eraser is active.
setBrushSize(n) ==
    /\ activeTool \in {"brush", "eraser"}
    /\ SetTool(activeTool, brushColor, n, brushOpacity, Op("setBrushSize"))

setBrushOpacity(pct) ==
    /\ activeTool \in {"brush", "eraser"}
    /\ SetTool(activeTool, brushColor, brushSize, pct, Op("setBrushOpacity"))

\* The colour input.
setBrushColor(hex) == SetTool(activeTool, hex, brushSize, brushOpacity, Op("setBrushColor"))

\* handleColorPick, the dropper's onColorPick.
handleColorPick(hex) ==
    /\ brushColor' = hex
    /\ activeTool' = "brush"

(***************************************************************************)
(* Painting (GridCanvas)                                                   *)
(***************************************************************************)

\* The brush loop's target cells that pass its bounds check, 0-based <<row, col>>.
\* The block of the brush laid from the pointer's cell, not around it.
TargetsFromCorner(mouseX, mouseY, size, cfg) ==
    {t \in {<<mouseY + dy, mouseX + dx>> : dy \in 0..(size - 1), dx \in 0..(size - 1)} :
        /\ t[1] >= 0 /\ t[1] < cfg.rows
        /\ t[2] >= 0 /\ t[2] < cfg.cols}

Targets(mouseX, mouseY, size, cfg) ==
    LET offset == size \div 2
    IN  {t \in {<<mouseY - offset + dy, mouseX - offset + dx>> :
                    dy \in 0..(size - 1), dx \in 0..(size - 1)} :
            /\ t[1] >= 0 /\ t[1] < cfg.rows
            /\ t[2] >= 0 /\ t[2] < cfg.cols}

\* [...prev[targetY]] with prev[targetY] undefined throws a TypeError.
Throws(prev, targets) == \E t \in targets : t[1] >= Len(prev)

PaintRgb(tool, color) ==
    LET paintHex == IF tool = "eraser" THEN <<"#","f","f","f","f","f","f">> ELSE color
    IN  IF hexToRgb(paintHex) = null THEN White ELSE hexToRgb(paintHex)

\* One cell under the brush: replaced when the blended hex differs from its hex.
PaintCell(currentPixel, paintRgb, opacity) ==
    LET blended == blendColors(currentPixel, paintRgb, opacity)
        blendedHex == rgbToHex(blended.r, blended.g, blended.b)
    IN  IF currentPixel.hex # blendedHex
        THEN [r |-> blended.r, g |-> blended.g, b |-> blended.b, hex |-> blendedHex]
        ELSE currentPixel

\* The updater handed to setPixels, where it does not throw.
Painted(prev, targets, paintRgb, opacity) ==
    [y \in 1..Len(prev) |-> [x \in 1..Len(prev[y]) |->
        IF <<y - 1, x - 1>> \in targets
        THEN PaintCell(prev[y][x], paintRgb, opacity)
        ELSE prev[y][x]]]

\* A run of the updater that reports no change though a cell is targeted.
ChangedWhenTargeted(prev, targets, paintRgb, opacity) ==
    \E t \in targets : t[2] < Len(prev[t[1] + 1])

\* The updater's flag: some targeted cell had another hex than its blend, so the
\* new array is returned and not prev.
Changed(prev, targets, paintRgb, opacity) ==
    \E t \in targets :
        /\ t[2] < Len(prev[t[1] + 1])
        /\ LET currentPixel == prev[t[1] + 1][t[2] + 1]
               blended == blendColors(currentPixel, paintRgb, opacity)
           IN  currentPixel.hex # rgbToHex(blended.r, blended.g, blended.b)

\* handleDraw for an event of the given type at cell (mouseX, mouseY), 0-based,
\* drawing being isDrawing.current when it runs.
handleDraw(mouseX, mouseY, type, drawing) ==
    LET targets == Targets(mouseX, mouseY, brushSize, gridConfig)
        new == Painted(pixels, targets, PaintRgb(activeTool, brushColor), brushOpacity)
    IN  IF activeTool = "none" \/ Len(pixels) = 0
        THEN UNCHANGED <<pixels, toolVars, crashed, paints>>
        ELSE IF mouseX < 0 \/ mouseX >= gridConfig.cols
                \/ mouseY < 0 \/ mouseY >= gridConfig.rows
        THEN UNCHANGED <<pixels, toolVars, crashed, paints>>
        ELSE IF activeTool = "dropper"
        THEN /\ IF mouseY < Len(pixels) /\ mouseX < Len(pixels[mouseY + 1])
                THEN handleColorPick(pixels[mouseY + 1][mouseX + 1].hex)
                ELSE UNCHANGED <<activeTool, brushColor>>
             /\ UNCHANGED <<pixels, brushSize, brushOpacity, crashed, paints>>
        ELSE IF ~drawing /\ type # "mousedown" /\ type # "click"
        THEN UNCHANGED <<pixels, toolVars, crashed, paints>>
        ELSE IF Throws(pixels, targets)
        THEN /\ crashed' = TRUE
             /\ UNCHANGED <<pixels, toolVars, paints>>
        ELSE /\ pixels' = new
             /\ paints' = IF Changed(pixels, targets, PaintRgb(activeTool, brushColor),
                                     brushOpacity)
                          THEN paints + 1 ELSE paints
             /\ UNCHANGED <<toolVars, crashed>>

\* The cells a pointer event over the canvas can name: the canvas is laid out at
\* 20 px per cell of the grid, plus a border on each side.
PointerCells ==
    {<<mx, my>> \in (-1..(IF pixels = <<>> THEN 0 ELSE Len(pixels[1]))) \X (-1..Len(pixels)) : TRUE}

\* The canvas exists while imageSrc is set; MaxPaints bounds the strokes explored.
CanvasReady ==
    /\ imageSrc # null
    /\ activeTool \in {"brush", "eraser"} => paints < MaxPaints

handleMouseDown(mouseX, mouseY) ==
    /\ CanvasReady
    /\ ~buttonHeld
    /\ buttonHeld' = TRUE
    /\ isDrawing' = TRUE
    /\ handleDraw(mouseX, mouseY, "mousedown", TRUE)
    /\ last' = OpAt("handleMouseDown", mouseX, mouseY)
    /\ UNCHANGED <<appVars, loads, extracts, storage>>

handleMouseMove(mouseX, mouseY) ==
    /\ CanvasReady
    /\ IF isDrawing /\ activeTool # "dropper"
       THEN handleDraw(mouseX, mouseY, "mousemove", isDrawing)
       ELSE UNCHANGED <<pixels, toolVars, crashed, paints>>
    /\ last' = OpAt("handleMouseMove", mouseX, mouseY)
    /\ UNCHANGED <<appVars, mouseVars, loads, extracts, storage>>

\* A release that leaves isDrawing.current as it is.
MouseUpKeepsDrawing ==
    /\ imageSrc # null
    /\ buttonHeld
    /\ buttonHeld' = FALSE
    /\ isDrawing' = isDrawing
    /\ last' = Op("handleMouseUp")
    /\ UNCHANGED <<appVars, pixels, toolVars, loads, extracts, storage, crashed, paints>>

\* onMouseUp: the button is released (over the canvas or not: off the canvas
\* isDrawing is false already).
handleMouseUp ==
    /\ imageSrc # null
    /\ buttonHeld
    /\ buttonHeld' = FALSE
    /\ isDrawing' = FALSE
    /\ last' = Op("handleMouseUp")
    /\ UNCHANGED <<appVars, pixels, toolVars, loads, extracts, storage, crashed, paints>>

\* onMouseLeave: the pointer leaves the canvas, the button as it is.
handleMouseLeave ==
    /\ imageSrc # null
    /\ isDrawing' = FALSE
    /\ last' = Op("handleMouseLeave")
    /\ UNCHANGED <<appVars, pixels, toolVars, buttonHeld, loads, extracts, storage,
                   crashed, paints>>

\* The button is pressed off the canvas: no handler runs.
pressOutside ==
    /\ ~buttonHeld
    /\ buttonHeld' = TRUE
    /\ last' = Op("pressOutside")
    /\ UNCHANGED <<appVars, pixels, toolVars, isDrawing, loads, extracts, storage,
                   crashed, paints>>

(***************************************************************************)
(* The saved project                                                       *)
(***************************************************************************)

\* JSON.stringify and JSON.parse return the grid, the configuration and the source
\* as they were (numbers, strings, booleans and arrays of them); a setItem that
\* throws is caught and leaves the storage as it was.
handleSaveProject ==
    /\ storage' = IF Len(pixels) = 0 THEN storage
                  ELSE [pixels |-> pixels, gridConfig |-> gridConfig, imageSrc |-> imageSrc]
    /\ last' = Op("handleSaveProject")
    /\ UNCHANGED <<appVars, pixels, toolVars, mouseVars, loads, extracts, crashed, paints>>

\* handleLoadProject: the ref is set, the saved state is committed, and the effect
\* that follows the render (the parsed palette is a new array) clears the ref.
handleLoadProject ==
    /\ IF storage = null
       THEN UNCHANGED <<appVars, pixels, paints>>
       ELSE /\ Commit(storage.imageSrc, storage.gridConfig, TRUE, TRUE)
            /\ pixels' = storage.pixels
            /\ paints' = 0
    /\ last' = Op("handleLoadProject")
    /\ UNCHANGED <<toolVars, mouseVars, loads, extracts, storage, crashed>>

(***************************************************************************)
(* Specifications                                                          *)
(***************************************************************************)

\* A project an earlier session saved: the image "duo" at 2 x 1, its first knot
\* painted black.
EarlierProject ==
    LET cfg == [rows |-> 1, cols |-> 2, showGrid |-> TRUE, showNumbers |-> FALSE,
                contrast |-> 10, usePalette |-> FALSE,
                palette |-> PRESET_PALETTES.traditional]
    IN  [pixels |-> Painted(processImage(Capture(Src("duo"), cfg)), {<<0, 0>>}, Black, 100),
         gridConfig |-> cfg,
         imageSrc |-> Src("duo")]

\* No helper is being called on its own.
NoCall == [fn |-> "", args |-> <<>>, result |-> <<>>]

\* useState's initial values and the first run of the effect (imageSrc is null),
\* with what localStorage holds when the application starts.
AppInit(saved) ==
    /\ storage = saved
    /\ imageSrc = null
    /\ pixels = <<>>
    /\ gridConfig = [rows |-> 80, cols |-> 60, showGrid |-> TRUE, showNumbers |-> FALSE,
                     contrast |-> 10, usePalette |-> FALSE,
                     palette |-> PRESET_PALETTES.traditional]
    /\ isProcessingBlocked = FALSE
    /\ activeTool = "none"
    /\ brushColor = <<"#","0","0","0","0","0","0">>
    /\ brushSize = 1
    /\ brushOpacity = 100
    /\ isDrawing = FALSE
    /\ decodes = <<>>
    /\ loads = {}
    /\ extracts = {}
    /\ crashed = FALSE
    /\ buttonHeld = FALSE
    /\ paints = 0
    /\ last = [op |-> "init", tool |-> "none", x |-> 0, y |-> 0, arg |-> ""]

InitWith(saved) == AppInit(saved) /\ call = NoCall

Init == InitWith(null)

\* ---- Spec: the configuration, the resample it starts, paint and a saved project.
\* One image; each field of the configuration between two values; one knot painted.
DimInputs      == {1, 2}
ContrastInputs == {10, 20}
Presets        == {"modern"}
FirstKnot      == {<<0, 0>>}

Next ==
    /\ ~crashed
    /\ UNCHANGED call
    /\ \/ imageSrc = null /\ loadImageAndConfig(Src("duo"))
       \/ loadImageOnload(Src("duo"))
       \/ \E i \in 1..MaxPending : processImageOnload(i)
       \/ \E i \in 1..MaxPending : processImageError(i)
       \/ \E v \in DimInputs : setCols(v)
       \/ \E v \in DimInputs : setRows(v)
       \/ \E v \in ContrastInputs : setContrast(v)
       \/ toggleUsePalette
       \/ \E key \in Presets : selectPreset(key)
       \/ selectTool("brush")
       \/ \E c \in PointerCells \cap FirstKnot : handleMouseDown(c[1], c[2])
       \/ handleMouseUp
       \/ handleLoadProject
    /\ Len(decodes') <= MaxPending

Spec == InitWith(EarlierProject) /\ [][Next]_vars

\* ---- SpecOrder: resamples racing each other and a project saved and loaded;
\* the dropper on a grid whose configuration has moved on.
OrderKnots == {<<0, 0>>, <<1, 0>>}

NextOrder ==
    /\ ~crashed
    /\ UNCHANGED call
    /\ \/ imageSrc = null /\ loadImageAndConfig(Src("duo"))
       \/ loadImageOnload(Src("duo"))
       \/ loadImageError(Src("duo"))
       \/ \E i \in 1..MaxRacing : processImageOnload(i)
       \/ \E v \in DimInputs : setCols(v)
       \/ selectTool("dropper")
       \/ \E c \in PointerCells \cap OrderKnots : handleMouseDown(c[1], c[2])
       \/ handleMouseUp
       \/ storage = null /\ handleSaveProject
       \/ handleLoadProject
    /\ Len(decodes') <= MaxRacing

SpecOrder == Init /\ [][NextOrder]_vars

\* ---- SpecPaint: the tools and the pointer on the 3 x 3 grid of the image "tile3".
PaintKnots   == {<<0, 0>>, <<1, 0>>, <<1, 1>>, <<3, 1>>}
BrushSizes   == {1, 3}
BrushColors  == {<<"#","f","f","0","0","0","0">>}

NextPaint ==
    /\ ~crashed
    /\ UNCHANGED call
    /\ \/ imageSrc = null /\ loadImageAndConfig(Src("tile3"))
       \/ loadImageOnload(Src("tile3"))
       \/ processImageOnload(1)
       \/ \E t \in {"brush", "eraser", "dropper"} : selectTool(t)
       \/ selectNone
       \/ \E n \in BrushSizes : setBrushSize(n)
       \/ \E hex \in BrushColors : setBrushColor(hex)
       \/ \E c \in PointerCells \cap PaintKnots : handleMouseDown(c[1], c[2])
       \/ \E c \in PointerCells \cap PaintKnots : handleMouseMove(c[1], c[2])
       \/ handleMouseUp
       \/ handleMouseLeave
       \/ pressOutside
       \/ pickPaletteColor(0)

SpecPaint == Init /\ [][NextPaint]_vars

\* ---- SpecBlend: single presses of the brush and the eraser on the 3 x 3 grid, at
\* two sizes, two opacities and two colours.
BlendKnots    == {<<0, 0>>, <<1, 0>>, <<2, 2>>}
Opacities     == {50, 100}

NextBlend ==
    /\ ~crashed
    /\ UNCHANGED call
    /\ \/ imageSrc = null /\ loadImageAndConfig(Src("tile3"))
       \/ loadImageOnload(Src("tile3"))
       \/ processImageOnload(1)
       \/ \E t \in {"brush", "eraser"} : activeTool # t /\ selectTool(t)
       \/ \E n \in BrushSizes : setBrushSize(n)
       \/ \E pct \in Opacities : setBrushOpacity(pct)
       \/ \E hex \in BrushColors : setBrushColor(hex)
       \/ \E c \in PointerCells \cap BlendKnots : handleMouseDown(c[1], c[2])
       \/ handleMouseUp

SpecBlend == Init /\ [][NextBlend]_vars

\* ---- SpecImages: one image loaded after another, the second 300 x 1.
NextImages ==
    /\ ~crashed
    /\ UNCHANGED call
    /\ \/ \E src \in {Src("duo"), Src("banner")} : loadImageAndConfig(src)
       \/ \E src \in {Src("duo"), Src("banner")} : loadImageOnload(src)
       \/ processImageOnload(1)
       \/ selectTool("brush")
       \/ \E c \in PointerCells \cap FirstKnot : handleMouseDown(c[1], c[2])
       \/ handleMouseUp
       \/ toggleShowGrid
    /\ Len(decodes') <= MaxPending

SpecImages == Init /\ [][NextImages]_vars

\* ---- SpecPalette: the palette's operations on the 4 x 4 image "red4".
PaletteIndexes == {0}
PaletteColors  == {<<"#","f","f","0","0","0","0">>}

NextPalette ==
    /\ ~crashed
    /\ UNCHANGED call
    /\ \/ imageSrc = null /\ loadImageAndConfig(Src("red4"))
       \/ loadImageOnload(Src("red4"))
       \/ processImageOnload(1)
       \/ toggleUsePalette
       \/ \E index \in PaletteIndexes, hex \in PaletteColors : updatePaletteColor(index, hex)
       \/ addColorToPalette
       \/ \E index \in PaletteIndexes : removeColorFromPalette(index)
       \/ \E key \in Presets : selectPreset(key)
       \/ extractPaletteFromImage
       \/ \E src \in extracts : extractOnload(src)
       \/ \E src \in extracts : extractError(src)
    /\ Len(decodes') <= MaxPending

SpecPalette == Init /\ [][NextPalette]_vars

\* ---- SpecSwatch: a palette extracted from the 3 x 3 image (9 pixels in 16
\* buckets), a swatch of it picked as the brush colour, and a press of the brush.
NextSwatch ==
    /\ ~crashed
    /\ UNCHANGED call
    /\ \/ imageSrc = null /\ loadImageAndConfig(Src("tile3"))
       \/ loadImageOnload(Src("tile3"))
       \/ processImageOnload(1)
       \/ extracts = {} /\ extractPaletteFromImage
       \/ \E src \in extracts : extractOnload(src)
       \/ \E i \in PaletteIndexes : pickPaletteColor(i)
       \/ \E c \in PointerCells \cap BlendKnots : handleMouseDown(c[1], c[2])
       \/ handleMouseUp
    /\ Len(decodes') <= MaxPending

SpecSwatch == Init /\ [][NextSwatch]_vars


\* ---- SpecMapper: palette mode over the image "duo" (a grey and a white pixel)
\* with palettes that hold two colours at the same distance from the grey, on
\* either side of it in green, and palettes with an entry that is no colour.
TieColors  == {<<"#","6","4","5","a","6","4">>, <<"#","6","4","6","e","6","4">>}
TieIndexes == {0, 1}

NextMapper ==
    /\ ~crashed
    /\ UNCHANGED call
    /\ \/ imageSrc = null /\ loadImageAndConfig(Src("duo"))
       \/ loadImageOnload(Src("duo"))
       \/ processImageOnload(1)
       \/ processImageError(1)
       \/ toggleUsePalette
       \/ \E i \in TieIndexes, c \in TieColors : updatePaletteColor(i, c)
       \/ extracts = {} /\ extractPaletteFromImage
       \/ \E src \in extracts : extractOnload(src)
    /\ Len(decodes') <= MaxPending

SpecMapper == Init /\ [][NextMapper]_vars

\* ---- SpecEdge: the brush and the eraser on the 2 x 1 grid of the image "duo"
\* while the configured number of rows and columns is changed.
EdgeKnots == {<<0, 0>>, <<1, 0>>}

NextEdge ==
    /\ ~crashed
    /\ UNCHANGED call
    /\ \/ imageSrc = null /\ loadImageAndConfig(Src("duo"))
       \/ loadImageOnload(Src("duo"))
       \/ processImageOnload(1)
       \/ \E v \in DimInputs : setRows(v)
       \/ \E v \in DimInputs : setCols(v)
       \/ \E t \in {"brush", "eraser"} : activeTool # t /\ selectTool(t)
       \/ \E n \in BrushSizes : setBrushSize(n)
       \/ \E c \in PointerCells \cap EdgeKnots : handleMouseDown(c[1], c[2])
       \/ \E c \in PointerCells \cap EdgeKnots : handleMouseMove(c[1], c[2])
       \/ handleMouseUp
    /\ Len(decodes') <= MaxPending

SpecEdge == Init /\ [][NextEdge]_vars

\* ---- SpecDistance: getColorDistance called on pairs of colours whose channels
\* are at the ends, next to the ends and in the middle of 0..255.
Channels == {0, 1, 128, 254, 255}
Colours  == {Rgb(r, g, b) : r \in Channels, g \in Channels, b \in Channels}

appState == <<imageSrc, pixels, gridConfig, isProcessingBlocked, activeTool, brushColor,
              brushSize, brushOpacity, isDrawing, decodes, loads, extracts, storage,
              crashed, buttonHeld, paints, last>>

InitDistance ==
    /\ AppInit(null)
    /\ \E a \in Colours, b \in Colours :
           call = [fn |-> "getColorDistance", args |-> <<a, b>>, result |-> <<>>]

callGetColorDistance ==
    /\ call.fn = "getColorDistance"
    /\ call.result = <<>>
    /\ call' = [call EXCEPT !.result =
                   <<getColorDistance(call.args[1], call.args[2]),
                     getColorDistance(call.args[2], call.args[1]),
                     getColorDistance(call.args[1], call.args[1])>>]
    /\ UNCHANGED appState

SpecDistance == InitDistance /\ [][callGetColorDistance]_vars

\* ---- SpecTools: the tool buttons, the sliders, the colour input, the swatches,
\* the dropper and the gridlines toggle on the 3 x 3 grid of the image "tile3",
\* before and after a press of the brush.

NextTools ==
    /\ ~crashed
    /\ UNCHANGED call
    /\ \/ imageSrc = null /\ loadImageAndConfig(Src("tile3"))
       \/ loadImageOnload(Src("tile3"))
       \/ processImageOnload(1)
       \/ \E t \in {"brush", "dropper"} : selectTool(t)
       \/ selectNone
       \/ \E n \in BrushSizes : setBrushSize(n)
       \/ \E pct \in Opacities : setBrushOpacity(pct)
       \/ \E hex \in BrushColors : setBrushColor(hex)
       \/ pickPaletteColor(0)
       \/ toggleShowGrid
       \/ \E c \in PointerCells \cap FirstKnot : handleMouseDown(c[1], c[2])
       \/ handleMouseUp

SpecTools == Init /\ [][NextTools]_vars

\* ---- SpecBlendCell: the update of one cell under the brush, for each opacity of
\* the slider, over cells and paints whose channels include pairs that blend to
\* x.5.
AllOpacities  == {10, 20, 30, 40, 50, 60, 70, 80, 90, 100}
BlendChannels == {0, 1, 36, 255}

InitBlendCell ==
    /\ AppInit(null)
    /\ \E r \in BlendChannels, g \in BlendChannels, pr \in BlendChannels,
          pg \in BlendChannels, pct \in AllOpacities :
           call = [fn |-> "blendColors",
                   args |-> <<[r |-> r, g |-> g, b |-> 0, hex |-> rgbToHex(r, g, 0)],
                              Rgb(pr, pg, 255), pct>>,
                   result |-> <<>>]

\* blended, blendedHex and the cell the brush loop leaves in newPixels.
callBlendColors ==
    /\ call.fn = "blendColors"
    /\ call.result = <<>>
    /\ \E blended \in BlendOutcomes(call.args[1], call.args[2], call.args[3]) :
           LET currentPixel == call.args[1]
               blendedHex == rgbToHex(blended.r, blended.g, blended.b)
           IN  call' = [call EXCEPT !.result =
                          <<IF currentPixel.hex # blendedHex
                            THEN [r |-> blended.r, g |-> blended.g, b |-> blended.b,
                                  hex |-> blendedHex]
                            ELSE currentPixel>>]
    /\ UNCHANGED appState

SpecBlendCell == InitBlendCell /\ [][callBlendColors]_vars

\* ---- SpecResample: img.onload of the processImage effect, called for each
\* captured configuration over two images, with palette mode on and off and with
\* palettes that hold no colour, no colour hexToRgb accepts, or some.
NotAColor == <<"#","a","N">>

ResamplePalettes ==
    {<<>>, <<NotAColor>>, <<NotAColor, NotAColor>>,
     <<NotAColor, <<"#","0","0","0","0","0","0">>>>,
     PRESET_PALETTES.traditional}

Captures ==
    {[src |-> Src(name), cols |-> cols, rows |-> rows, contrast |-> contrast,
      usePalette |-> usePalette, palette |-> palette] :
        name \in {"duo", "tile3"}, cols \in 1..2, rows \in 1..2,
        contrast \in {10, 15}, usePalette \in BOOLEAN, palette \in ResamplePalettes}

InitResample ==
    /\ AppInit(null)
    /\ \E d \in Captures :
           call = [fn |-> "processImage", args |-> <<d>>, result |-> <<>>]

\* newPixels of img.onload for this configuration.
callProcessImage ==
    /\ call.fn = "processImage"
    /\ call.result = <<>>
    /\ call' = [call EXCEPT !.result = <<processImage(call.args[1])>>]
    /\ UNCHANGED appState

SpecResample == InitResample /\ [][callProcessImage]_vars

\* ---- SpecQuantize: medianCutQuantization and the deduplication that follows it
\* in extractPaletteFromImage, called on samples of one colour and on samples of
\* as many black as white pixels, in three orders, at each depth up to MaxDepth.
MaxSample  == 4      \* pixels in a sample of one colour
MaxCluster == 2      \* pixels of each colour in a sample of black and white
MaxDepth   == 3      \* depth of the quantization

Repeat(c, n) == [i \in 1..n |-> c]

Samples ==
    {Repeat(c, n) : c \in {Red, Grey, Black}, n \in 0..MaxSample}
    \cup {Repeat(Black, k) \o Repeat(White, k) : k \in 1..MaxCluster}
    \cup {Repeat(White, k) \o Repeat(Black, k) : k \in 1..MaxCluster}
    \cup {[i \in 1..(2 * k) |-> IF i % 2 = 1 THEN Black ELSE White] : k \in 1..MaxCluster}

InitQuantize ==
    /\ AppInit(null)
    /\ \E sample \in Samples, depth \in 0..MaxDepth :
           call = [fn |-> "medianCutQuantization", args |-> <<sample, depth>>,
                   result |-> <<>>]

\* quantizedColors and uniqueColors of extractPaletteFromImage, for this sample
\* and depth.
callMedianCutQuantization ==
    /\ call.fn = "medianCutQuantization"
    /\ call.result = <<>>
    /\ LET quantizedColors == medianCutQuantization(call.args[1], call.args[2])
       IN  call' = [call EXCEPT !.result =
                      <<quantizedColors,
                        Unique([i \in 1..Len(quantizedColors) |->
                                   rgbToHex(quantizedColors[i].r, quantizedColors[i].g,
                                            quantizedColors[i].b)])>>]
    /\ UNCHANGED appState

SpecQuantize == InitQuantize /\ [][callMedianCutQuantization]_vars

(***************************************************************************)
(* Properties                                                              *)
(***************************************************************************)

ResampleOps == {"processImage.onload"}
PointerOps  == {"handleMouseDown", "handleMouseMove", "handleMouseUp", "handleMouseLeave"}
PaintTools  == {"brush", "eraser"}

ConfigChanged ==
    \/ gridConfig'.rows # gridConfig.rows
    \/ gridConfig'.cols # gridConfig.cols
    \/ gridConfig'.contrast # gridConfig.contrast
    \/ gridConfig'.usePalette # gridConfig.usePalette
    \/ gridConfig'.palette # gridConfig.palette

\* C1: in every reachable state in which the grid is non-empty, the grid has
\* exactly gridConfig.rows rows and every row has exactly gridConfig.cols entries,
\* the states between a rows/cols change and the end of its resample included.
C1_GridMatchesConfig ==
    pixels # <<>> =>
        /\ Len(pixels) = gridConfig.rows
        /\ \A y \in 1..Len(pixels) : Len(pixels[y]) = gridConfig.cols

\* C2: while a source image is loaded, every change to rows, cols, contrast, the
\* palette-mode flag or the palette starts a resample, and when the decode of a
\* resample completes the grid is replaced wholesale by a grid of the rows and
\* cols the resample was started with, no paint edit remaining in it.
C2_ResampleReplaces ==
    [][ /\ (imageSrc # null /\ imageSrc' # null /\ ConfigChanged) =>
               /\ Len(decodes') = Len(decodes) + 1
               /\ decodes'[Len(decodes')] = Capture(imageSrc', gridConfig')
        /\ last'.op \in ResampleOps =>
               LET d == decodes[last'.x]
               IN  /\ paints' = 0
                   /\ (d.rows >= 1 /\ d.cols >= 1) =>
                          /\ Len(pixels') = d.rows
                          /\ \A y \in 1..Len(pixels') : Len(pixels'[y]) = d.cols
      ]_vars

\* C3: resamples complete in the order they were started, so that once a resample
\* has been committed and no decode is pending, the grid is the one computed from
\* the current configuration and image.
C3_LatestResampleWins ==
    (last.op \in ResampleOps /\ decodes = <<>> /\ imageSrc # null) =>
        pixels = processImage(Capture(imageSrc, gridConfig))

\* C4: loading a saved project sets the grid to the saved grid, and the grid is
\* still the saved grid after a decode that was pending at the load completes.
C4_LoadedGridStays ==
    [][ storage # null =>
            /\ last'.op = "handleLoadProject" => pixels' = storage.pixels
            /\ (last.op = "handleLoadProject" /\ last'.op \in ResampleOps) =>
                   pixels' = storage.pixels
      ]_vars

\* C5: in every reachable state the palette has at least 2 entries.
C5_PaletteAtLeastTwo == Len(gridConfig.palette) >= 2

\* C6 as stated: selecting a tool while it is active sets the tool to none and
\* selecting it otherwise makes it the active tool, and selecting the same tool
\* twice in a row ends in none from any state.
C6_TwiceEndsInNone ==
    [][ last'.op = "selectTool" =>
            /\ activeTool' = IF activeTool = last'.arg THEN "none" ELSE last'.arg
            /\ (last.op = "selectTool" /\ last.arg = last'.arg) => activeTool' = "none"
      ]_vars

\* C6: selecting a tool while it is active sets the tool to none and selecting it
\* otherwise makes it the active tool; selecting the same tool twice in a row ends
\* in none when the tool was not active before the first selection, and ends with
\* the tool active when it was.
C6_Toggle ==
    [][ last'.op = "selectTool" =>
            /\ activeTool' = IF activeTool = last'.arg THEN "none" ELSE last'.arg
            /\ (last.op = "selectTool" /\ last.arg = last'.arg) =>
                   activeTool' = IF last.tool = last'.arg THEN last'.arg ELSE "none"
      ]_vars

\* A tool was selected while it was active, and no tool is active now.
C6_Witness ==
    /\ last.op = "selectTool"
    /\ last.tool = last.arg
    /\ activeTool = "none"

\* C7: with the dropper active, a pointer-down over a cell of the grid sets the
\* brush colour to the colour of the cell and the tool to brush, and a
\* pointer-down off the grid leaves the tool and the brush colour as they are.
C7_DropperPicks ==
    [][ (last'.op = "handleMouseDown" /\ activeTool = "dropper") =>
            IF /\ last'.y \in 0..(Len(pixels) - 1)
               /\ last'.x \in 0..(Len(pixels[last'.y + 1]) - 1)
            THEN /\ brushColor' = pixels[last'.y + 1][last'.x + 1].hex
                 /\ activeTool' = "brush"
            ELSE /\ brushColor' = brushColor
                 /\ activeTool' = activeTool
      ]_vars

\* C8: a pointer-down made while the dropper is active leaves every cell of the
\* grid unchanged, and so does a pointer-move that follows it in the same gesture.
C8_DropperLeavesGrid ==
    [][ /\ (last'.op = "handleMouseDown" /\ activeTool = "dropper") => pixels' = pixels
        /\ (last.op = "handleMouseDown" /\ last.tool = "dropper"
                /\ last'.op = "handleMouseMove") => pixels' = pixels
      ]_vars

\* C9: a pointer event changes the grid only if the active tool is brush or eraser
\* and the event is a pointer-down, or a pointer-move while the button is held.
C9_PointerFrame ==
    [][ (last'.op \in PointerOps /\ pixels' # pixels) =>
            /\ activeTool \in PaintTools
            /\ \/ last'.op = "handleMouseDown"
               \/ last'.op = "handleMouseMove" /\ buttonHeld
      ]_vars

\* A pointer-move with the button held has painted with the brush or the eraser.
C9_Witness ==
    /\ last.op = "handleMouseMove"
    /\ last.tool \in PaintTools
    /\ buttonHeld
    /\ paints = 1

\* A stroke of size 3 begins or goes on over a cell of a 3 x 3 grid.
Size3Stroke ==
    /\ last'.op \in {"handleMouseDown", "handleMouseMove"}
    /\ last'.op = "handleMouseMove" => isDrawing
    /\ activeTool \in PaintTools
    /\ brushSize = 3
    /\ brushOpacity = 100
    /\ Len(pixels) = 3
    /\ gridConfig.rows = 3 /\ gridConfig.cols = 3

HasRgb(cell, c) == cell.r = c.r /\ cell.g = c.g /\ cell.b = c.b

\* C10 as stated: with brush size 3 centered at (1,1) in a 3 x 3 grid, 4 cells at
\* most are touched, and no access is out of range.
C10_FourCells ==
    [][ (Size3Stroke /\ last'.x = 1 /\ last'.y = 1) =>
            /\ ~crashed'
            /\ Cardinality({c \in (1..3) \X (1..3) :
                               pixels'[c[1]][c[2]] # pixels[c[1]][c[2]]}) <= 4
      ]_vars

\* C10: with brush size 3 centered at (1,1) in a 3 x 3 grid, all 9 cells are
\* painted; centered at the corner (0,0), the 4 cells of rows 0..1 and columns
\* 0..1 are painted and the others are left as they are; no access is out of range.
C10_BrushBlock ==
    [][ Size3Stroke =>
            LET paint == PaintRgb(activeTool, brushColor)
            IN  /\ ~crashed'
                /\ (last'.x = 1 /\ last'.y = 1) =>
                       \A y \in 1..3, x \in 1..3 : HasRgb(pixels'[y][x], paint)
                /\ (last'.x = 0 /\ last'.y = 0) =>
                       \A y \in 1..3, x \in 1..3 :
                           IF y <= 2 /\ x <= 2
                           THEN HasRgb(pixels'[y][x], paint)
                           ELSE pixels'[y][x] = pixels[y][x]
      ]_vars

\* The eraser, size 3, pressed on (1,1) of the 3 x 3 grid: all 9 cells are white.
C10_Witness ==
    /\ last.op = "handleMouseDown"
    /\ last.x = 1 /\ last.y = 1
    /\ last.tool = "eraser"
    /\ brushSize = 3
    /\ paints = 1
    /\ Len(pixels) = 3
    /\ \A y \in 1..3, x \in 1..3 : pixels[y][x].hex = <<"#","f","f","f","f","f","f">>

StrokeOps == {"handleMouseDown", "handleMouseMove"}

\* The hex of the blend of a cell with the paint of the tool in hand.
BlendedHex(cell) ==
    LET blended == blendColors(cell, PaintRgb(activeTool, brushColor), brushOpacity)
    IN  rgbToHex(blended.r, blended.g, blended.b)

\* C11: in a paint application a cell whose blended hex equals its hex keeps its
\* value, and when no cell changes the updater returns the grid it was given: no
\* change is counted.
C11_NoOpWrites ==
    [][ (last'.op \in StrokeOps /\ ~crashed') =>
            /\ \A y \in 1..Len(pixels) : \A x \in 1..Len(pixels[y]) :
                   BlendedHex(pixels[y][x]) = pixels[y][x].hex =>
                       pixels'[y][x] = pixels[y][x]
            /\ pixels' = pixels => paints' = paints
      ]_vars

\* The brush was pressed on a cell that has the brush colour already: nothing
\* changed.
C11_Witness ==
    /\ last.op = "handleMouseDown"
    /\ last.tool = "brush"
    /\ activeTool = "brush"
    /\ brushSize = 1
    /\ paints = 0
    /\ last.y \in 0..(Len(pixels) - 1)
    /\ last.x \in 0..(Len(pixels[last.y + 1]) - 1)
    /\ pixels[last.y + 1][last.x + 1].hex = brushColor

\* A press or a held move of the brush or the eraser on a cell within gridConfig.
Stroke ==
    /\ last'.op \in StrokeOps
    /\ last'.op = "handleMouseMove" => isDrawing
    /\ activeTool \in PaintTools
    /\ pixels # <<>>
    /\ last'.x >= 0 /\ last'.x < gridConfig.cols
    /\ last'.y >= 0 /\ last'.y < gridConfig.rows

\* Cell (y, x), 1-based, is in the brushSize x brushSize block around the pointer.
InBrush(y, x) ==
    LET top  == last'.y - (brushSize \div 2)
        left == last'.x - (brushSize \div 2)
    IN  /\ y - 1 >= top  /\ y - 1 <= top + brushSize - 1
        /\ x - 1 >= left /\ x - 1 <= left + brushSize - 1

\* C12: painting with opacity 100% sets every targeted cell of the grid to the
\* paint colour, the brush colour for the brush and white for the eraser.
C12_FullOpacitySetsPaint ==
    [][ (Stroke /\ brushOpacity = 100 /\ ~crashed') =>
            LET want == IF activeTool = "eraser" THEN White ELSE hexToRgb(brushColor)
            IN  \A y \in 1..Len(pixels) : \A x \in 1..Len(pixels[y]) :
                    InBrush(y, x) =>
                        /\ want # null
                        /\ HasRgb(pixels'[y][x], want)
                        /\ hexToRgb(pixels'[y][x].hex) = want
      ]_vars

\* C13: for all colours a and b, distance(a, a) = 0, distance(a, b) =
\* distance(b, a), and distance(a, b) = 0 only if a and b have equal channels.
C13_DistanceLaws ==
    (call.fn = "getColorDistance" /\ call.result # <<>>) =>
        /\ call.result[3] = 0
        /\ call.result[1] = call.result[2]
        /\ call.result[1] = 0 => call.args[1] = call.args[2]

\* The distance between two colours one step of red apart was computed and is
\* not 0.
C13_Witness ==
    /\ call.fn = "getColorDistance"
    /\ call.args = <<Rgb(0, 0, 0), Rgb(1, 0, 0)>>
    /\ call.result # <<>>
    /\ call.result[1] > 0

\* The resample that completes in this step ran with palette mode on and a
\* palette that has an entry which parses.
PaletteResample ==
    /\ last'.op \in ResampleOps
    /\ LET d == decodes[last'.x]
       IN  /\ d.usePalette
           /\ d.rows >= 1 /\ d.cols >= 1
           /\ \E i \in 1..Len(d.palette) : hexToRgb(d.palette[i]) # null

\* C14: with palette mode on and a palette entry that parses, each resampled cell
\* has the r, g, b and hex of the entry at the smallest distance from the sampled
\* colour, and of the entries at that distance the one of lowest index.
C14_NearestFirst ==
    [][ PaletteResample =>
            LET d   == decodes[last'.x]
                raw == DrawImage(Decoded(d.src), d.cols, d.rows, d.contrast)
                Dist(y, x, i) == getColorDistance(raw[y][x], hexToRgb(d.palette[i]))
            IN  \A y \in 1..d.rows, x \in 1..d.cols :
                    \E i \in 1..Len(d.palette) :
                        /\ hexToRgb(d.palette[i]) # null
                        /\ HasRgb(pixels'[y][x], hexToRgb(d.palette[i]))
                        /\ pixels'[y][x].hex = d.palette[i]
                        /\ \A j \in 1..Len(d.palette) :
                               hexToRgb(d.palette[j]) # null =>
                                   /\ Dist(y, x, j) >= Dist(y, x, i)
                                   /\ j < i => Dist(y, x, j) > Dist(y, x, i)
      ]_vars

\* The grey pixel was mapped with the two colours at the same distance from it
\* first in the palette: the cell has the first of them.
C14_Witness ==
    /\ last.op \in ResampleOps
    /\ decodes = <<>>
    /\ gridConfig.usePalette
    /\ gridConfig.palette[1] = <<"#","6","4","6","e","6","4">>
    /\ gridConfig.palette[2] = <<"#","6","4","5","a","6","4">>
    /\ Len(pixels) = 1
    /\ pixels[1][1].hex = gridConfig.palette[1]

\* medianCutQuantization has returned for the sample and depth of call.
Quantized == call.fn = "medianCutQuantization" /\ call.result # <<>>

\* C15: for a sample of one colour C repeated n >= 1 times and every depth,
\* medianCutQuantization followed by the deduplication of the hex strings yields
\* the one-element palette [C].
C15_UniformYieldsOne ==
    (/\ Quantized
     /\ Len(call.args[1]) >= 1
     /\ \A i \in 1..Len(call.args[1]) : call.args[1][i] = call.args[1][1]) =>
        LET c == call.args[1][1]
        IN  call.result[2] = <<rgbToHex(c.r, c.g, c.b)>>

\* The sample of call has as many black as white pixels, at least one of each,
\* and nothing else.
TwoClusters ==
    LET sample == call.args[1]
    IN  /\ Len(sample) >= 2
        /\ \A i \in 1..Len(sample) : sample[i] \in {Black, White}
        /\ 2 * Cardinality({i \in 1..Len(sample) : sample[i] = Black}) = Len(sample)

\* C16: for k black and k white pixels and any depth >= 1, the quantizer's result
\* before deduplication contains (0,0,0) and (255,255,255), and is not one
\* blended grey.
C16_ClustersKept ==
    (Quantized /\ TwoClusters /\ call.args[2] >= 1) =>
        LET colors == call.result[1]
        IN  /\ \E i \in 1..Len(colors) : colors[i] = Black
            /\ \E i \in 1..Len(colors) : colors[i] = White
            /\ Len(colors) # 1

\* Two black and two white pixels, white first, were quantized at depth 1.
C16_Witness ==
    /\ Quantized
    /\ call.args = <<<<White, White, Black, Black>>, 1>>
    /\ call.result[1] = <<Black, White>>

\* C17: a base case of the quantizer on an empty sample yields no colour: every
\* colour of the result has its channels in 0..255, and every entry of the palette
\* made of them is the hex string of a colour.
C17_EmptyYieldsNoColour ==
    Quantized =>
        /\ \A i \in 1..Len(call.result[1]) :
               /\ call.result[1][i].r \in 0..255
               /\ call.result[1][i].g \in 0..255
               /\ call.result[1][i].b \in 0..255
        /\ \A i \in 1..Len(call.result[2]) : hexToRgb(call.result[2][i]) # null

\* C18: the hex of every cell of the grid is the lowercase 6-digit encoding of
\* the cell's r, g and b, after a resample with palette mode on or off.
C18_HexIsCanonical ==
    \A y \in 1..Len(pixels) : \A x \in 1..Len(pixels[y]) :
        pixels[y][x].hex = rgbToHex(pixels[y][x].r, pixels[y][x].g, pixels[y][x].b)

\* C19: when the image of a resample fails to decode, the grid stays as it was:
\* neither the step that started the decode nor the failure changes a cell.
C19_FailureKeepsGrid ==
    [][ (Len(decodes') > Len(decodes) \/ last'.op = "processImage.onerror") =>
            pixels' = pixels
      ]_vars

\* A resample's image failed to decode while the grid of an earlier resample
\* was in place.
C19_Witness ==
    /\ last.op = "processImage.onerror"
    /\ pixels # <<>>
    /\ decodes = <<>>

\* C20: a paint application changes only cells of the brushSize x brushSize
\* block around the pointer's cell that lie inside the grid, and its targets
\* outside the grid are skipped with no error and no access out of range.
C20_OnlyTheBlock ==
    [][ Stroke =>
            /\ ~crashed'
            /\ Len(pixels') = Len(pixels)
            /\ \A y \in 1..Len(pixels) :
                   /\ Len(pixels'[y]) = Len(pixels[y])
                   /\ \A x \in 1..Len(pixels[y]) :
                          ~InBrush(y, x) => pixels'[y][x] = pixels[y][x]
      ]_vars

\* img.onload has built newPixels for a captured configuration.
Resampled == call.fn = "processImage" /\ call.result # <<>>

\* C21: with palette mode off, or with a palette none of whose entries parses,
\* every cell of the resampled grid has the sampled r, g and b and the hex made
\* of them.
C21_RawWithoutPalette ==
    Resampled =>
        LET d == call.args[1]
            data == DrawImage(Decoded(d.src), d.cols, d.rows, d.contrast)
            newPixels == call.result[1]
        IN  (~d.usePalette \/ \A i \in 1..Len(d.palette) : hexToRgb(d.palette[i]) = null) =>
                /\ Len(newPixels) = d.rows
                /\ \A y \in 1..d.rows :
                       /\ Len(newPixels[y]) = d.cols
                       /\ \A x \in 1..d.cols :
                              newPixels[y][x] =
                                  [r |-> data[y][x].r, g |-> data[y][x].g, b |-> data[y][x].b,
                                   hex |-> rgbToHex(data[y][x].r, data[y][x].g, data[y][x].b)]

\* A resample with palette mode on and a palette whose one entry is no colour.
C21_Witness ==
    /\ Resampled
    /\ call.args[1].usePalette
    /\ call.args[1].palette = <<NotAColor>>
    /\ call.args[1].cols = 2
    /\ call.result[1][1][1].hex = <<"#","6","4","6","4","6","4">>

\* The place where hex first occurs among the hex strings of the colours.
FirstPlace(colours, hex) ==
    CHOOSE i \in 1..Len(colours) :
        /\ rgbToHex(colours[i].r, colours[i].g, colours[i].b) = hex
        /\ \A j \in 1..(i - 1) : rgbToHex(colours[j].r, colours[j].g, colours[j].b) # hex

\* C22: on a non-empty sample the quantizer returns at most 2^depth colours, and
\* the palette made of them holds each of their hex strings once, in the order
\* in which they first occur in the quantizer's result.
C22_BoundedAndDistinct ==
    (Quantized /\ Len(call.args[1]) >= 1) =>
        LET colours == call.result[1]
            unique  == call.result[2]
        IN  /\ Len(colours) <= 2 ^ call.args[2]
            /\ {unique[i] : i \in 1..Len(unique)} =
                   {rgbToHex(colours[i].r, colours[i].g, colours[i].b) : i \in 1..Len(colours)}
            /\ \A i \in 1..Len(unique), j \in 1..Len(unique) :
                   i < j => /\ unique[i] # unique[j]
                            /\ FirstPlace(colours, unique[i]) < FirstPlace(colours, unique[j])

\* Two white and two black pixels at depth 3: 8 colours, three hex strings.
C22_Witness ==
    /\ Quantized
    /\ call.args = <<<<White, White, Black, Black>>, 3>>
    /\ Len(call.result[1]) = 8
    /\ call.result[2] = <<NotAColor, <<"#","0","0","0","0","0","0">>,
                          <<"#","f","f","f","f","f","f">>>>

\* C23: a step that changes the active tool, the brush colour, the brush size or
\* the brush opacity, or that toggles the gridlines, changes no cell of the grid
\* and starts no resample.
C23_ToolsLeaveGrid ==
    [][ (toolVars' # toolVars \/ last'.op = "toggleShowGrid") =>
            /\ pixels' = pixels
            /\ decodes' = decodes
            /\ paints' = paints
      ]_vars

\* The gridlines were toggled over a grid that holds a manual edit.
C23_Witness ==
    /\ last.op = "toggleShowGrid"
    /\ ~gridConfig.showGrid
    /\ paints = 1
    /\ pixels # <<>>
    /\ decodes = <<>>

\* C24: gridConfig.rows and gridConfig.cols are at least 1 in every state, also
\* after loadImageAndConfig has derived them from a decoded image.
C24_DimsAtLeastOne ==
    /\ gridConfig.rows >= 1
    /\ gridConfig.cols >= 1

\* v lies between a and b, the ends included.
Between(v, a, b) == v \in Min(a, b)..Max(a, b)

\* C25: in a paint application at an opacity of 10%, 20%, ..., 100% each channel
\* of the cell's new value is an integer between the cell's channel before and
\* the paint's channel, so within 0..255.
C25_BlendBetween ==
    (call.fn = "blendColors" /\ call.result # <<>>) =>
        LET currentPixel == call.args[1]
            paintRgb == call.args[2]
            new == call.result[1]
        IN  /\ Between(new.r, currentPixel.r, paintRgb.r)
            /\ Between(new.g, currentPixel.g, paintRgb.g)
            /\ Between(new.b, currentPixel.b, paintRgb.b)
            /\ new.r \in 0..255 /\ new.g \in 0..255 /\ new.b \in 0..255
            /\ new.hex = rgbToHex(new.r, new.g, new.b)

\* Red 1 painted with red 36 at 30%: 11.5 in exact arithmetic, 11 after the
\* rounding of the doubles.
C25_Witness ==
    /\ call.fn = "blendColors"
    /\ call.result # <<>>
    /\ call.args[3] = 30
    /\ call.args[1].r = 1
    /\ call.args[2].r = 36
    /\ call.result[1].r = 11

====
